---- MODULE Spec2Model ----
(***************************************************************************)
(* A model of stac-pydantic's extension registry (Extensions.register and  *)
(* Extensions.get), of the datetime validator of ItemProperties and of     *)
(* validate_item.                                                          *)
(*                                                                         *)
(* Python text is modelled as a sequence of chunks: a chunk is either one  *)
(* of the punctuation characters "-", "_", ":" or a run of letters, so     *)
(* "item_assets" is <<"item", "_", "assets">>; a run of digits is a chunk   *)
(* too.  A Python value is a record [t |-> its type, s |-> its text or     *)
(* identity].                                                              *)
(***************************************************************************)
EXTENDS Integers, Sequences, FiniteSets, TLC

VARIABLES
    attrs,       \* the attributes of class Extensions: name -> value
    aliases,     \* the dict object created at class definition: alias -> value
    calls,       \* the register calls made so far: arguments, outcome, state before and after
    lastGet,     \* the last Extensions.get call: its key and its outcome
    thr,         \* the threads running Extensions.register concurrently
    item         \* one call of validate_item: the document, the position, the outcome

vars == <<attrs, aliases, calls, lastGet, thr, item>>

----------------------------------------------------------------------------
(* Python values *)

Str(s) == [t |-> "str", s |-> s]
None == [t |-> "NoneType", s |-> <<>>]
Model(m) == [t |-> "type", s |-> <<m>>]
AliasDict == [t |-> "dict", s |-> <<"aliases">>]
ClassMethod(f) == [t |-> "classmethod", s |-> <<f>>]

Return(v) == [kind |-> "return", exc |-> "", val |-> v]
Raise(e, m) == [kind |-> "raise", exc |-> e, val |-> Str(m)]
NoCall == [kind |-> "none", exc |-> "", val |-> None]

\* Python truthiness of the values the model uses: None and "" are falsy.
Truthy(v) == ~(v.t = "NoneType" \/ (v.t = "str" /\ v.s = <<>>))

----------------------------------------------------------------------------
(* urlparse(k).scheme and str.replace *)

Punct == {"-", "_", ":", "//"}
Digits == {"2020", "01", "1", "13", "00", "0"}
\* scheme_chars of urllib.parse: letters, digits, "+", "-", "."; not "_".
SchemeChunk(c) == c \notin {"_", ":", "//"}

\* urlsplit finds a scheme when the text before the first ":" is not empty,
\* begins with a letter and holds scheme characters only.
HasScheme(s) ==
    \E i \in 1..Len(s) :
        /\ s[i] = ":"
        /\ \A j \in 1..(i-1) : s[j] # ":"
        /\ i > 1
        /\ s[1] \notin Punct \cup Digits
        /\ \A j \in 1..(i-1) : SchemeChunk(s[j])

\* k.replace("-", "_")
ReplaceHyphens(s) == [i \in 1..Len(s) |-> IF s[i] = "-" THEN "_" ELSE s[i]]

\* line 42-43 of Extensions.get
Normalize(s) == IF ~HasScheme(s) THEN ReplaceHyphens(s) ELSE s

----------------------------------------------------------------------------
(* class Extensions *)

BuiltinNames ==
    { <<"datacube">>, <<"eo">>, <<"item", "_", "assets">>, <<"label">>,
      <<"pointcloud">>, <<"projection">>, <<"sar">>, <<"sat">>,
      <<"scientific">>, <<"timestamps">>, <<"version">>, <<"view">> }

\* The class body: twelve extension models, the aliases dict and the two
\* class methods, all attributes of the one class.
ClassAttrs ==
    [n \in BuiltinNames \cup {<<"aliases">>, <<"register">>, <<"get">>} |->
        CASE n = <<"aliases">> -> AliasDict
          [] n = <<"register">> -> ClassMethod("register")
          [] n = <<"get">> -> ClassMethod("get")
          [] OTHER -> Model(n[1])]

EmptyDict == [a \in {} |-> None]

\* setattr(cls, k, v)
SetAttr(a, k, v) == [n \in DOMAIN a \cup {k} |-> IF n = k THEN v ELSE a[n]]

\* The value stored under the alias: the name, not the model.
AliasTarget(k, v) == Str(k)

\* cls.aliases[alias] = k, on the dict object
StoreAlias(d, alias, k, v) ==
    [a \in DOMAIN d \cup {alias.s} |-> IF a = alias.s THEN AliasTarget(k, v) ELSE d[a]]

\* The body of register: the name is bound first; with a truthy alias the
\* attribute cls.aliases is then read and the alias stored in what it holds.
\* Item assignment on a value that is not the dict raises TypeError.
RegisterOp(reg, k, v, alias) ==
    LET a1 == SetAttr(reg.attrs, k, v) IN
    IF ~Truthy(alias)
    THEN [attrs |-> a1, aliases |-> reg.aliases, out |-> Return(None)]
    ELSE IF a1[<<"aliases">>].t = "dict"
    THEN [attrs |-> a1, aliases |-> StoreAlias(reg.aliases, alias, k, v),
          out |-> Return(None)]
    ELSE [attrs |-> a1, aliases |-> reg.aliases,
          out |-> Raise("TypeError", <<"object does not support item assignment">>)]

\* Extensions.register(k, v, alias): the attribute "register" is looked up on
\* the class and called; a model class called with positional arguments
\* raises TypeError.
RegisterCall(reg, k, v, alias) ==
    IF reg.attrs[<<"register">>] = ClassMethod("register")
    THEN RegisterOp(reg, k, v, alias)
    ELSE [attrs |-> reg.attrs, aliases |-> reg.aliases,
          out |-> Raise("TypeError", <<"positional arguments">>)]

\* The text of the error of line 50: k is the rebound (normalised) name.
InvalidMsg(k) == <<"Invalid extension name or alias: ">> \o k

\* The body of get.
GetOp(reg, key) ==
    LET k == Normalize(key) IN
    IF k \in DOMAIN reg.attrs
    THEN Return(reg.attrs[k])
    ELSE IF reg.attrs[<<"aliases">>].t # "dict"
    THEN Raise("TypeError", <<"object is not subscriptable">>)
    ELSE IF k \notin DOMAIN reg.aliases
    THEN Raise("AttributeError", InvalidMsg(k))
    ELSE LET target == reg.aliases[k] IN
         IF target.t # "str"
         THEN Raise("TypeError", <<"attribute name must be string">>)
         ELSE IF target.s \in DOMAIN reg.attrs
         THEN Return(reg.attrs[target.s])
         ELSE Raise("AttributeError", <<"type object has no attribute ">> \o target.s)

\* Extensions.get(key): the attribute "get" is looked up on the class and called.
GetCall(reg, key) ==
    IF reg.attrs[<<"get">>] = ClassMethod("get")
    THEN GetOp(reg, key)
    ELSE Raise("TypeError", <<"positional arguments">>)

----------------------------------------------------------------------------
(* The inputs of the registry *)

MaxCalls == 2

Uri == <<"https", ":", "//", "x", "-", "y">>

RegNames ==
    { <<"eo">>, <<"x", "-", "y">>, <<"x", "_", "y">>, Uri,
      <<"aliases">>, <<"register">>, <<"get">> }

RegModels == {Model("M1"), Model("M2")}

RegAliases ==
    { None, Str(<<>>), Str(<<"z">>), Str(<<"z", "-", "w">>), Str(<<"eo">>) }

GetKeys ==
    RegNames \cup {a.s : a \in RegAliases \ {None}}
        \cup {<<"q", "-", "r">>, <<"item", "-", "assets">>, <<"z", "_", "w">>}

Registry == [attrs |-> attrs, aliases |-> aliases]

IdleThreads == [t \in {} |-> None]
IdleItem == [pc |-> "idle"]

InitRegistry ==
    /\ attrs = ClassAttrs
    /\ aliases = EmptyDict
    /\ calls = <<>>
    /\ lastGet = [key |-> <<>>, out |-> NoCall]

Init ==
    /\ InitRegistry
    /\ thr = IdleThreads
    /\ item = IdleItem

Register(k, v, alias) ==
    /\ Len(calls) < MaxCalls
    /\ LET r == RegisterCall(Registry, k, v, alias) IN
        /\ attrs' = r.attrs
        /\ aliases' = r.aliases
        /\ calls' = Append(calls, [k |-> k, v |-> v, alias |-> alias, out |-> r.out,
                                   before |-> Registry,
                                   after |-> [attrs |-> r.attrs, aliases |-> r.aliases]])
    /\ UNCHANGED <<lastGet, thr, item>>

Get(key) ==
    /\ lastGet' = [key |-> key, out |-> GetCall(Registry, key)]
    /\ UNCHANGED <<attrs, aliases, calls, thr, item>>

\* The calls that bound their name: all but those that failed at the lookup
\* of the method.
Bound(i) == calls[i].after.attrs # calls[i].before.attrs \/ calls[i].out.kind = "return"

\* The model most lately registered under name k, and the name most lately
\* given alias a.
LastCall(S) == CHOOSE i \in S : \A j \in S : j <= i
CallsOf(k) == {i \in 1..Len(calls) : Bound(i) /\ calls[i].k = k}
CallsAs(a) ==
    {i \in 1..Len(calls) : calls[i].out.kind = "return" /\ Truthy(calls[i].alias)
                            /\ calls[i].alias.s = a}
RegisteredNames == {calls[i].k : i \in {j \in 1..Len(calls) : Bound(j)}}
RegisteredAliases ==
    {a \in {calls[i].alias.s : i \in 1..Len(calls)} : CallsAs(a) # {}}
CurrentModel(k) == calls[LastCall(CallsOf(k))].v

\* C1: after any register calls, get(name) returns the model bound to name
\* and get(alias) the model of the name the alias was bound to, for names
\* and aliases with hyphens and for an alias equal to a registered name.
C1_GetReturnsRegistered ==
    /\ \A k \in RegisteredNames : GetCall(Registry, k) = Return(CurrentModel(k))
    /\ \A a \in RegisteredAliases :
          GetCall(Registry, a) = Return(CurrentModel(calls[LastCall(CallsAs(a))].k))

\* C2: get of a key with no scheme that is neither a registered name nor a
\* registered alias raises AttributeError with the message "Invalid
\* extension name or alias: " followed by the key as the caller passed it.
C2_UnknownKeyRaisesWithOriginalKey ==
    \A key \in GetKeys :
        (/\ ~HasScheme(key)
         /\ key \notin BuiltinNames \cup RegisteredNames \cup RegisteredAliases)
        => GetCall(Registry, key)
             = Raise("AttributeError", <<"Invalid extension name or alias: ">> \o key)

\* C8: in every state reached by register calls the alias table is still a
\* mapping and every alias in it maps to a name bound in the registry.
C8_AliasTableInvariant ==
    /\ attrs[<<"aliases">>] = AliasDict
    /\ \A a \in DOMAIN aliases :
          /\ aliases[a].t = "str"
          /\ aliases[a].s \in DOMAIN attrs
          /\ attrs[aliases[a].s].t = "type"

\* C9: register called twice with the same inputs leaves the state of the
\* first call; register(name, m2) after register(name, m1) does not raise,
\* leaves name bound to m2 and changes no other name and no other alias.
C9_RegisterOverwritesIdempotent ==
    \A i \in 1..(Len(calls) - 1) :
        LET c == calls[i]
            d == calls[i + 1]
        IN  c.k = d.k =>
              /\ d.out = Return(None)
              /\ d.after.attrs[d.k] = d.v
              /\ \A n \in DOMAIN d.before.attrs \ {d.k} :
                    n \in DOMAIN d.after.attrs /\ d.after.attrs[n] = d.before.attrs[n]
              /\ \A a \in DOMAIN d.before.aliases :
                    (Truthy(d.alias) => a # d.alias.s) =>
                        a \in DOMAIN d.after.aliases
                        /\ d.after.aliases[a] = d.before.aliases[a]
              /\ (c.v = d.v /\ c.alias = d.alias) => d.after = c.after

Next ==
    \/ \E k \in RegNames, v \in RegModels, alias \in RegAliases : Register(k, v, alias)
    \/ \E key \in GetKeys : Get(key)

Spec == Init /\ [][Next]_vars

----------------------------------------------------------------------------
(* Two threads, each making one Extensions.register call.  The interpreter *)
(* switches threads between the steps of the call: the lookup of the       *)
(* method, setattr, the read of cls.aliases and the store into the dict.   *)

Threads == {1, 2}

Other(t) == CHOOSE u \in Threads : u # t

Midway(t) == thr[t].pc \in {"setattr", "load", "store"}

InitThreads ==
    /\ InitRegistry
    /\ item = IdleItem
    /\ thr \in [Threads -> [pc : {"call"}, k : RegNames, v : RegModels,
                            alias : RegAliases, ref : {None}, out : {NoCall},
                            overlap : {FALSE}]]

Step(t, pc, ref, out) ==
    thr' = [thr EXCEPT ![t].pc = pc, ![t].ref = ref, ![t].out = out,
                       ![t].overlap = @ \/ Midway(Other(t))]

\* Extensions.register is looked up and called (line 33-34).
ThreadCall(t) ==
    /\ thr[t].pc = "call"
    /\ IF attrs[<<"register">>] = ClassMethod("register")
       THEN Step(t, "setattr", None, NoCall)
       ELSE Step(t, "done", None, Raise("TypeError", <<"positional arguments">>))
    /\ UNCHANGED <<attrs, aliases, calls, lastGet, item>>

\* setattr(cls, k, v), then the test of alias (line 35-37).
ThreadSetAttr(t) ==
    /\ thr[t].pc = "setattr"
    /\ attrs' = SetAttr(attrs, thr[t].k, thr[t].v)
    /\ IF Truthy(thr[t].alias)
       THEN Step(t, "load", None, NoCall)
       ELSE Step(t, "done", None, Return(None))
    /\ UNCHANGED <<aliases, calls, lastGet, item>>

\* cls.aliases is read (line 38, the left side).
ThreadLoad(t) ==
    /\ thr[t].pc = "load"
    /\ Step(t, "store", attrs[<<"aliases">>], NoCall)
    /\ UNCHANGED <<attrs, aliases, calls, lastGet, item>>

\* ...[alias] = k on the value read (line 38).
ThreadStore(t) ==
    /\ thr[t].pc = "store"
    /\ IF thr[t].ref.t = "dict"
       THEN /\ aliases' = StoreAlias(aliases, thr[t].alias, thr[t].k, thr[t].v)
            /\ Step(t, "done", thr[t].ref, Return(None))
       ELSE /\ aliases' = aliases
            /\ Step(t, "done", thr[t].ref,
                    Raise("TypeError", <<"object does not support item assignment">>))
    /\ UNCHANGED <<attrs, calls, lastGet, item>>

NextThreads ==
    \E t \in Threads :
        \/ ThreadCall(t)
        \/ ThreadSetAttr(t)
        \/ ThreadLoad(t)
        \/ ThreadStore(t)

SpecThreads == InitThreads /\ [][NextThreads]_vars

AllDone == \A t \in Threads : thr[t].pc = "done"

\* The registry after the two calls made one after the other, t first.
Serial(t) ==
    LET a == thr[t]
        b == thr[Other(t)]
        r1 == RegisterCall([attrs |-> ClassAttrs, aliases |-> EmptyDict], a.k, a.v, a.alias)
        r2 == RegisterCall([attrs |-> r1.attrs, aliases |-> r1.aliases], b.k, b.v, b.alias)
    IN [attrs |-> r2.attrs, aliases |-> r2.aliases]

----------------------------------------------------------------------------
(* ItemProperties: the datetime field and its validator *)

Bool(b) == [t |-> "bool", s |-> <<IF b THEN "True" ELSE "False">>]
DateTime(f) == [t |-> "datetime", s |-> f]

\* The decimal value of a run of digits, as int() reads it, written without
\* leading zeros.
Canon(c) == CASE c \in {"01", "1"} -> "1"
              [] c \in {"00", "0"} -> "0"
              [] OTHER -> c

Year4 == {"2020"}
Digits12 == {"01", "1", "13", "00", "0"}

\* datetime_re of pydantic.datetime_parse: a date, "T", hours and minutes,
\* then optional seconds and an optional "Z".
MatchesDatetime(s) ==
    /\ Len(s) \in 9..12
    /\ s[1] \in Year4 /\ s[2] = "-" /\ s[3] \in Digits12 /\ s[4] = "-" /\ s[5] \in Digits12
    /\ s[6] = "T" /\ s[7] \in Digits12 /\ s[8] = ":" /\ s[9] \in Digits12
    /\ LET rest == SubSeq(s, 10, Len(s)) IN
          \/ rest = <<>>
          \/ rest = <<"Z">>
          \/ Len(rest) = 2 /\ rest[1] = ":" /\ rest[2] \in Digits12
          \/ Len(rest) = 3 /\ rest[1] = ":" /\ rest[2] \in Digits12 /\ rest[3] = "Z"

\* The ranges datetime() accepts, for the digit runs of the model.
InRange(s) ==
    /\ Canon(s[3]) \in {"1"}
    /\ Canon(s[5]) \in {"1", "13"}

\* parse_datetime(v) of a str: the structured value, or DateTimeError.
ParseDatetime(s) ==
    IF MatchesDatetime(s) /\ InRange(s)
    THEN Return(DateTime(<<Canon(s[1]), Canon(s[3]), Canon(s[5]), Canon(s[7]), Canon(s[9]),
                           IF Len(s) >= 11 THEN Canon(s[11]) ELSE "0",
                           IF s[Len(s)] = "Z" THEN "UTC" ELSE "naive">>))
    ELSE Raise("DateTimeError", <<"invalid datetime format">>)

ConsistencyMsg ==
    <<"start_datetime and end_datetime must be specified when datetime is null">>

\* The test of line 29 on the two sibling values.
RangeMissing(values) ==
    ~Truthy(values.start_datetime) /\ ~Truthy(values.end_datetime)

\* ItemProperties.validate_datetime(v, values)
validate_datetime(v, values) ==
    IF v = Str(<<"null">>) /\ RangeMissing(values)
    THEN Raise("ValueError", ConsistencyMsg)
    ELSE IF v.t = "str"
    THEN ParseDatetime(v.s)
    ELSE Return(v)

\* Field datetime: Union[dt, str], required.  The field is first read as a
\* datetime, then as a str; the validator runs on what that gives.
CoerceDatetime(raw) ==
    IF raw.t = "NoneType"
    THEN Raise("ValidationError", <<"none is not an allowed value">>)
    ELSE IF raw.t = "str" /\ ParseDatetime(raw.s).kind = "return"
    THEN ParseDatetime(raw.s)
    ELSE Return(raw)

\* The construction of ItemProperties from the three temporal values: the
\* stored datetime, or the error of the field.
ItemProperties(p) ==
    LET c == CoerceDatetime(p.datetime) IN
    IF c.kind = "raise" THEN c
    ELSE validate_datetime(c.val, [start_datetime |-> p.start_datetime,
                                   end_datetime |-> p.end_datetime])

----------------------------------------------------------------------------
(* Item and validate_item *)

MaxExts == 2

GoodText == <<"2020", "-", "01", "-", "01", "T", "00", ":", "00", "Z">>
ShortText == <<"2020", "-", "1", "-", "1", "T", "0", ":", "0", ":", "00", "Z">>
BadMonthText == <<"2020", "-", "13", "-", "01", "T", "00", ":", "00", "Z">>
SomeDateTime == DateTime(<<"2020", "1", "13", "0", "0", "0", "UTC">>)

DatetimeInputs ==
    { None, Str(<<"null">>), Str(GoodText), Str(ShortText), Str(BadMonthText),
      Str(<<"not", "-", "a", "-", "date">>), SomeDateTime }

RangeInputs == {None, SomeDateTime}

IdInputs == {None, Str(<<>>), Str(<<"item">>)}

ExtUris == { <<"https", ":", "//", "a">>, <<"https", ":", "//", "b">>, <<"no", "-", "scheme">> }

SeqsUpTo(S, n) == UNION {[1..m -> S] : m \in 0..n}

Docs ==
    [ id : IdInputs,
      others : BOOLEAN,
      properties : [datetime : DatetimeInputs, start_datetime : RangeInputs,
                    end_datetime : RangeInputs],
      has_extensions : BOOLEAN,
      stac_extensions : SeqsUpTo(ExtUris, MaxExts) ]

\* Item.parse_obj(item): id is a str of length 1 or more, the properties
\* construct, every declared extension is a URL, the other mandatory fields
\* are well formed.
ItemShapeOk(doc) ==
    /\ doc.id.t = "str" /\ Len(doc.id.s) >= 1
    /\ doc.others
    /\ ItemProperties(doc.properties).kind = "return"
    /\ doc.has_extensions => \A j \in 1..Len(doc.stac_extensions) : HasScheme(doc.stac_extensions[j])

\* A handler that swallows the error and lets the function return True.
HandleSwallow(reraise, err) == IF reraise THEN err ELSE Return(Bool(TRUE))

\* except Exception: raise when reraise_exception, else return False.
Handle(reraise, err) == IF reraise THEN err ELSE Return(Bool(FALSE))

\* A loop that visits the declared extensions from the last to the first.
ExtAtReversed(exts, i) == exts[Len(exts) + 1 - i]

\* The extension the loop of line 90 visits at its i-th round.
ExtAt(exts, i) == exts[i]

Event(ev, i, uri, ok) == [ev |-> ev, i |-> i, uri |-> uri, ok |-> ok]

InitItem ==
    /\ InitRegistry
    /\ thr = IdleThreads
    /\ \E doc \in Docs, reraise \in BOOLEAN :
          /\ ~doc.has_extensions => doc.stac_extensions = <<>>
          /\ item = [pc |-> "parse_obj", doc |-> doc, reraise |-> reraise,
                     props |-> NoCall, i |-> 0, body |-> "", log |-> <<>>,
                     failures |-> <<>>, outcome |-> NoCall]

ShapeError == Raise("ValidationError", <<"validation error for Item">>)

\* A step of the try block fails with err: the handler ends the call.
Fail(e, err) ==
    item' = [item EXCEPT !.pc = "done", !.log = Append(@, e),
                         !.failures = Append(@, err),
                         !.outcome = Handle(item.reraise, err)]

\* Item.parse_obj(item) (line 88)
ParseObj ==
    /\ item.pc = "parse_obj"
    /\ LET pr == ItemProperties(item.doc.properties) IN
       IF ItemShapeOk(item.doc)
       THEN item' = [item EXCEPT !.pc = "extensions", !.props = pr,
                                 !.log = Append(@, Event("parse_obj", 0, <<>>, TRUE))]
       ELSE item' = [item EXCEPT !.pc = "done", !.props = pr,
                                 !.log = Append(@, Event("parse_obj", 0, <<>>, FALSE)),
                                 !.failures = Append(@, ShapeError),
                                 !.outcome = Handle(item.reraise, ShapeError)]
    /\ UNCHANGED <<attrs, aliases, calls, lastGet, thr>>

\* if item["stac_extensions"] (line 89): KeyError when the key is absent.
ReadExtensions ==
    /\ item.pc = "extensions"
    /\ IF ~item.doc.has_extensions
       THEN Fail(Event("getitem", 0, <<>>, FALSE), Raise("KeyError", <<"stac_extensions">>))
       ELSE IF item.doc.stac_extensions = <<>>
       THEN item' = [item EXCEPT !.pc = "done", !.outcome = Return(Bool(TRUE))]
       ELSE item' = [item EXCEPT !.pc = "fetch", !.i = 1]
    /\ UNCHANGED <<attrs, aliases, calls, lastGet, thr>>

\* req = requests.get(ext) (line 91): the network answers with some body or
\* the request raises.
Fetch ==
    /\ item.pc = "fetch"
    /\ LET uri == ExtAt(item.doc.stac_extensions, item.i) IN
       \/ \E body \in {"schema", "not json", "not a schema"} :
             item' = [item EXCEPT !.pc = "json", !.body = body,
                                  !.log = Append(@, Event("fetch", item.i, uri, TRUE))]
       \/ Fail(Event("fetch", item.i, uri, FALSE),
               Raise("ConnectionError", <<"connection failed">>))
    /\ UNCHANGED <<attrs, aliases, calls, lastGet, thr>>

\* schema = req.json() (line 92)
Decode ==
    /\ item.pc = "json"
    /\ LET uri == ExtAt(item.doc.stac_extensions, item.i) IN
       IF item.body = "not json"
       THEN Fail(Event("json", item.i, uri, FALSE),
                 Raise("JSONDecodeError", <<"expecting value">>))
       ELSE item' = [item EXCEPT !.pc = "validate",
                                 !.log = Append(@, Event("json", item.i, uri, TRUE))]
    /\ UNCHANGED <<attrs, aliases, calls, lastGet, thr>>

\* jsonschema.validate(instance=item, schema=schema) (line 93), then the
\* next round of the loop or return True (line 98).
Validate ==
    /\ item.pc = "validate"
    /\ LET uri == ExtAt(item.doc.stac_extensions, item.i) IN
       IF item.body = "not a schema"
       THEN Fail(Event("validate", item.i, uri, FALSE),
                 Raise("SchemaError", <<"schema is invalid">>))
       ELSE \/ Fail(Event("validate", item.i, uri, FALSE),
                    Raise("ValidationError", <<"instance does not match the schema">>))
            \/ IF item.i < Len(item.doc.stac_extensions)
               THEN item' = [item EXCEPT !.pc = "fetch", !.i = item.i + 1, !.body = "",
                                 !.log = Append(@, Event("validate", item.i, uri, TRUE))]
               ELSE item' = [item EXCEPT !.pc = "done", !.body = "",
                                 !.log = Append(@, Event("validate", item.i, uri, TRUE)),
                                 !.outcome = Return(Bool(TRUE))]
    /\ UNCHANGED <<attrs, aliases, calls, lastGet, thr>>

NextItem ==
    \/ ParseObj
    \/ ReadExtensions
    \/ Fetch
    \/ Decode
    \/ Validate

SpecItem == InitItem /\ [][NextItem]_vars

----------------------------------------------------------------------------
(* validate_item and ItemProperties: the properties *)

Done == item.pc = "done"
Constructed == item.pc \notin {"idle", "parse_obj"}
Fetches == {p \in 1..Len(item.log) : item.log[p].ev = "fetch"}
NoExtensions == ~item.doc.has_extensions \/ item.doc.stac_extensions = <<>>

\* C3: a document that passes the shape validation and declares no
\* extensions (key absent, or present and empty) is not fetched for and
\* validate_item returns True, whatever reraise_exception is.
C3_NoExtensionsReturnsTrue ==
    (Done /\ ItemShapeOk(item.doc) /\ NoExtensions)
        => (Fetches = {} /\ item.outcome = Return(Bool(TRUE)))

\* C4: when a step fails, validate_item returns False with
\* reraise_exception=False and raises the first error, unchanged, with
\* reraise_exception=True; it returns True only when no step failed.
C4_ErrorPolicy ==
    Done =>
        /\ item.failures # <<>> =>
              item.outcome = (IF item.reraise THEN item.failures[1] ELSE Return(Bool(FALSE)))
        /\ item.outcome = Return(Bool(TRUE)) => item.failures = <<>>

\* The second fetch fails and the error is swallowed into False.
C4_Witness ==
    /\ Done
    /\ ~item.reraise
    /\ Cardinality(Fetches) = 2
    /\ item.failures = <<Raise("ConnectionError", <<"connection failed">>)>>
    /\ item.outcome = Return(Bool(FALSE))

\* C5: datetime "null" with start_datetime and end_datetime both set:
\* the construction succeeds and the stored datetime is the string "null".
C5_NullWithRangeAccepted ==
    (/\ Constructed
     /\ item.doc.properties.datetime = Str(<<"null">>)
     /\ Truthy(item.doc.properties.start_datetime)
     /\ Truthy(item.doc.properties.end_datetime))
        => item.props = Return(Str(<<"null">>))

\* C6: datetime "null" with start_datetime or end_datetime missing: the
\* construction fails with the consistency error.
C6_NullRequiresBoth ==
    (/\ Constructed
     /\ item.doc.properties.datetime = Str(<<"null">>)
     /\ \/ ~Truthy(item.doc.properties.start_datetime)
        \/ ~Truthy(item.doc.properties.end_datetime))
        => item.props = Raise("ValueError", ConsistencyMsg)

\* C7: no fetch before the shape validation has succeeded; the declared
\* extensions are fetched in the order of the document, the n-th fetch being
\* of the n-th declared extension and no declared extension fetched twice;
\* every fetch but the first directly follows the successful validation of
\* the document against the schema fetched before; no fetch follows a
\* failure.
C7_FetchOrder ==
    item.pc # "idle" =>
        \A p \in Fetches :
            LET n == Cardinality({q \in Fetches : q <= p})
                e == item.log[p]
            IN  /\ p > 1
                /\ item.log[1] = Event("parse_obj", 0, <<>>, TRUE)
                /\ n <= Len(item.doc.stac_extensions)
                /\ e.i = n
                /\ e.uri = item.doc.stac_extensions[n]
                /\ \A q \in 1..(p - 1) : item.log[q].ok
                /\ n > 1 =>
                      /\ item.log[p - 1] =
                            Event("validate", n - 1, item.doc.stac_extensions[n - 1], TRUE)
                      /\ item.log[p - 2] =
                            Event("json", n - 1, item.doc.stac_extensions[n - 1], TRUE)
                      /\ item.log[p - 3].ev = "fetch" /\ item.log[p - 3].i = n - 1

\* Two different extensions were fetched and validated against in turn and
\* the call returned True.
C7_Witness ==
    /\ Done
    /\ Len(item.doc.stac_extensions) = 2
    /\ item.doc.stac_extensions[1] # item.doc.stac_extensions[2]
    /\ Cardinality(Fetches) = 2
    /\ item.outcome = Return(Bool(TRUE))

====
